---- MODULE Spec2Model ----
(***************************************************************************)
(* State-machine model of mpwl-raytrace: the process-wide cosmology and    *)
(* simulation record (cosmology.py), the ray-tracing input objects         *)
(* (halo_inputs.py) and the test-case generators (make_simple_lens.py,     *)
(* make_simple_halo.py).                                                   *)
(*                                                                         *)
(* Number representation.  Redshifts are integers in units of 1/1000.      *)
(* Comoving distances are integers in Mpc.  The lens plane edges produced  *)
(* by np.linspace(0, zmax, n+1) are the exact rationals i*zmax/n; they are *)
(* kept as their numerators i*zmax over the common denominator edge_den.   *)
(* An attribute or argument that may be None, or may not exist at all, is  *)
(* a record [t, v] with t in {"unset", "none", "val"}.                     *)
(***************************************************************************)
EXTENDS Integers, Sequences, FiniteSets, TLC

VARIABLES cosmo, sim, mp, fs, nfw, sh, pm, last, emitted, hi, propfile, twin, ncalls

vars == <<cosmo, sim, mp, fs, nfw, sh, pm, last, emitted, hi, propfile, twin, ncalls>>

\* ------------------------------ bounds ---------------------------------

\* snapshot (lightcone shell) ids found in the cutout directory are taken
\* from 499, 449, ..., 499 - 50*MaxSnapK
MaxSnapK == 2
\* halo redshifts of the properties file: 0, 200, ..., 200*MaxHaloZ (x 1e-3)
MaxHaloZ == 2
\* concentrations supplied or drawn: 0, 2, ..., 2*MaxConc
MaxConc == 2
\* particle numbers N and n: 1..MaxN
MaxN == 2
\* radial cutoffs rfrac: 0..MaxRfrac
MaxRfrac == 2
\* field-of-view half widths fov_size (Mpc): 1..MaxFov
MaxFov == 2
\* background particle densities particle_rho (per Mpc^2): 1..MaxRho
MaxRho == 2
\* update_sim calls and halo_inputs constructions made one after the other
\* in one process: at most MaxCalls
MaxCalls == 2

\* ------------------------- optional values -----------------------------

None == [t |-> "none", v |-> 0]
Unset == [t |-> "unset", v |-> 0]
Val(x) == [t |-> "val", v |-> x]
IsVal(o) == o.t = "val"

Abs(x) == IF x < 0 THEN -x ELSE x

\* ---------------------------- cosmology.py -----------------------------

\* c/H0 in Mpc of the cosmology object in use (H0 = 71 for OuterRim_params,
\* H0 = 70.4 for astropy's WMAP7)
HubbleDistance(cos) == IF cos = "OuterRim" THEN 4222 ELSE 4258

\* cosmo.comoving_distance(z).value for the rational redshift
\* z = (num/den)/1000: a strictly increasing, concave function of z with
\* comoving_distance(0) = 0, here D_H * z / (1 + z/5) rounded down to Mpc
Dc(cos, num, den) == (HubbleDistance(cos) * 5 * num) \div (5000 * den + num)

\* Dc2(z1, z2): the body subtracts Dc(z2) from Dc(z2)
Dc2(cos, z1, z2) == Dc(cos, z2, 1) - Dc(cos, z2, 1)

\* cosmo.angular_diameter_distance(z).value: in the flat cosmologies in use
\* the comoving distance divided by 1 + z
Da(cos, z) == (Dc(cos, z, 1) * 1000) \div (1000 + z)
Da2(cos, z1, z2) == Da(cos, z2) - Da(cos, z1)

\* the process-wide simulation record OuterRim_setup (mpp in 1e6 Msun)
OuterRim_setup ==
    [z_init |-> 200, sim_steps |-> 500, L |-> 4225, mpp |-> 1850, name |-> "OuterRim"]

update_cosmology(old, new_cosmo) == new_cosmo

\* a merge in which a key that is already set keeps its old value
update_sim_KeepOld(old, new_sim) ==
    [key \in (DOMAIN old) \cup (DOMAIN new_sim) |->
        IF key \in DOMAIN old THEN old[key] ELSE new_sim[key]]

\* sim[key] = new_sim[key] for every key of new_sim, on the one dict that
\* the names sim and OuterRim_setup are bound to
update_sim(old, new_sim) ==
    [key \in (DOMAIN old) \cup (DOMAIN new_sim) |->
        IF key \in DOMAIN new_sim THEN new_sim[key] ELSE old[key]]

\* --------------------------- halo_inputs.py ----------------------------

\* 1 / np.linspace(1/(z_init+1), 1, sim_steps)[snapid] - 1, in 1e-3
SnapRedshift(s, snapid) ==
    (1000 * (s.z_init + 1) * (s.sim_steps - 1))
        \div ((s.sim_steps - 1) + snapid * s.z_init) - 1000

SetMax(S) == CHOOSE x \in S : \A y \in S : y <= x

\* a linspace that leaves out the start point and runs one step past the end
Linspace_FromFirstStep(zmax, n) == [i \in 1..(n + 1) |-> i * zmax]

\* numerators of np.linspace(0, zmax, n + 1); the denominator is LinspaceDen(n)
Linspace(zmax, n) == [i \in 1..(n + 1) |-> IF n = 0 THEN 0 ELSE (i - 1) * zmax]
LinspaceDen(n) == IF n = 0 THEN 1 ELSE n

\* the first loop of the safe-zone removal: the (0-based) indices of the
\* edges within safe_zone Mpc of the halo
RECURSIVE BadEdges(_, _, _, _, _, _)
BadEdges(cos, edges, den, halo_z, safe_zone, i) ==
    IF i >= Len(edges) THEN <<>>
    ELSE LET rest == BadEdges(cos, edges, den, halo_z, safe_zone, i + 1)
         IN  IF Abs(Dc(cos, halo_z, 1) - Dc(cos, edges[i + 1], den)) <= safe_zone
             THEN <<i>> \o rest
             ELSE rest

\* np.delete(arr, i) for an in-range 0-based index i
np_delete(arr, i) == SubSeq(arr, 1, i) \o SubSeq(arr, i + 2, Len(arr))

\* the second loop: delete the recorded indices one after the other from
\* the current array; np.delete raises IndexError for an index that is
\* out of bounds for the current array
RECURSIVE DeleteBadEdges(_, _, _)
DeleteBadEdges(edges, nplanes, bad) ==
    IF bad = <<>> THEN [edges |-> edges, num |-> nplanes, err |-> "ok"]
    ELSE IF Head(bad) >= Len(edges)
         THEN [edges |-> edges, num |-> nplanes, err |-> "IndexError"]
         ELSE DeleteBadEdges(np_delete(edges, Head(bad)), nplanes - 1, Tail(bad))

\* a trim that hands the kept edges back in reverse order
RECURSIVE Reverse(_)
Reverse(q) == IF q = <<>> THEN <<>> ELSE Reverse(Tail(q)) \o <<Head(q)>>
TrimMinDepth_Reversed(edges, den, min_depth) ==
    LET keep(e) == e >= min_depth * den IN Reverse(SelectSeq(edges, keep))

\* lens_plane_edges[lens_plane_edges >= min_depth]
TrimMinDepth(edges, den, min_depth) ==
    LET keep(e) == e >= min_depth * den IN SelectSeq(edges, keep)

\* ------------------------- make_simple_lens.py -------------------------

\* multiplication and division by cosmo.h (H0 = 71)
Times_h(x) == (x * 71) \div 100
Div_h(x) == (x * 100) \div 71

\* halotools' NFWProfile mass-radius relation at 200c: the mass grows with
\* the cube of the radius
halo_radius_to_halo_mass(r) == r * r * r
halo_mass_to_halo_radius(m) ==
    CHOOSE r \in 0..m : r * r * r <= m /\ m < (r + 1) * (r + 1) * (r + 1)

\* colossus' concentration(m200ch, '200c', z, model='child18')
mass_conc(m200ch, z) == 4

\* the names bound at module level in make_simple_lens.py and the local
\* names of NFW.__init__; any other name raises NameError when evaluated
LensModuleNames ==
    {"os", "sys", "pdb", "scipy", "pathlib", "np", "stats", "mpl", "rc", "u", "plt",
     "Axes3D", "colcos", "WMAP7", "z_at_value", "NFWProfile", "mass_conc", "cm",
     "NFW", "PointMass"}
NFWInitLocals == {"self", "z", "m200c", "r200c", "c", "cM_err", "cosmo", "seed"}

\* 1e4 * (ln(1 + x) - x / (1 + x)) for x = 0, 1, 2, ...: with rs = r200c/c
\* and rmax = rfrac*r200c, n is this at x = rfrac*c and d is this at x = c
NFWIntegral(x) ==
    <<0, 1931, 4319, 6363, 8094, 9584, 10888, 12044, 13083, 14026, 14888,
      15682, 16419, 17105, 17747, 18351, 18920, 19459, 19971, 20457, 20921>>[x + 1]

\* M_enc = m200c * n / d (lines 153-157), for c > 0
M_enc(m200c, c, rfrac) == (m200c * NFWIntegral(rfrac * c)) \div NFWIntegral(c)

\* np.random.RandomState(seed): the stream of numbers the generator will
\* produce.  A number as seed fixes the stream; with seed None the generator
\* is seeded from the operating system's entropy.
RandomState(seed, entropy) == IF seed.t = "val" THEN seed.v ELSE entropy

\* rand.normal(loc=c_u, scale=c_sig): the first number of the stream, mapped
\* into the concentrations 0, 2, ..., 2*MaxConc
rand_normal(stream) == 2 * ((stream + 1) % (MaxConc + 1))

\* no properties file
NoPropFile == [cls |-> "none", cols |-> <<>>, values |-> <<>>, fmt |-> <<>>, err |-> "ok"]

\* np.savetxt(fname, [props], fmt=..., delimiter=',', header=cols) for a row
\* of optional numbers: the file is opened first; then a format string whose
\* number of % fields differs from the number of columns raises ValueError,
\* and a None formatted as a number raises TypeError
np_savetxt(cls, values, fmt, cols) ==
    [cls |-> cls, cols |-> cols, values |-> values, fmt |-> fmt,
     err |-> IF Len(fmt) # Len(values) THEN "ValueError"
             ELSE IF \E i \in 1..Len(values) : values[i].t = "none" THEN "TypeError"
             ELSE "ok"]

\* np.genfromtxt(file, delimiter=',', names=True) of a properties file that
\* was written completely: the i-th column name is bound to the i-th value
genfromtxt(file) ==
    [name \in {file.cols[i] : i \in 1..Len(file.cols)} |->
        file.values[CHOOSE i \in 1..Len(file.cols) : file.cols[i] = name].v]

\* no NFW object.  r, theta and phi are kept as the lengths of the arrays,
\* angles is the random stream the values of theta and phi are drawn from.
NoNFW ==
    [exists |-> FALSE, redshift |-> 0,
     m200c |-> Unset, r200c |-> Unset, m200ch |-> Unset, r200ch |-> Unset,
     c |-> Unset, c_err |-> Unset, seed |-> Unset,
     r |-> Unset, theta |-> Unset, phi |-> Unset, angles |-> Unset, mpp |-> Unset,
     max_rfrac |-> Unset, populated |-> FALSE, halo_r |-> Unset,
     called_populate |-> FALSE]

NoCall == [cls |-> "none", op |-> "none", err |-> "ok"]
NothingEmitted == [cls |-> "none", count |-> 0, rsky_min |-> 0, lens |-> <<>>]

\* NFW.__init__.  optimize is Python's -O mode, under which the assert
\* statement of line 71 is not executed; drawn is the value rand.normal
\* returns.  The result is the new object and the exception raised, if any.
\* The arrays r, theta, phi are kept as their lengths; called_populate is a
\* history attribute (populate_halo was called on the object).
NFW_init(z, m200c, r200c, c, cM_err, seed, optimize, drawn) ==
    LET o1 == [NoNFW EXCEPT !.exists = TRUE, !.m200c = m200c, !.r200c = r200c,
                            !.redshift = z]
        \* if(r200c is None): reads self.m200ch
        o2 == IF r200c.t = "none"
              THEN [o1 EXCEPT !.r200ch = Val(halo_mass_to_halo_radius(o1.m200ch.v)),
                              !.r200c = Val(Div_h(halo_mass_to_halo_radius(o1.m200ch.v)))]
              ELSE o1
        o3 == IF m200c.t = "none"
              THEN [o2 EXCEPT !.m200c = Val(Div_h(halo_radius_to_halo_mass(o2.r200c.v)))]
              ELSE o2
        o4 == [o3 EXCEPT !.m200ch = Val(Times_h(o3.m200c.v)),
                         !.r = None, !.theta = None, !.phi = None,
                         !.angles = None, !.mpp = None,
                         !.max_rfrac = None, !.populated = FALSE]
        c_u == mass_conc(o4.m200ch.v, z)
        o5 == IF c.t # "none" THEN [o4 EXCEPT !.c = c]
              ELSE [o4 EXCEPT !.seed = seed,
                              !.c = IF cM_err THEN Val(drawn) ELSE Val(c_u),
                              !.c_err = Val(0)]
    IN  IF ~optimize /\ "m220c" \notin LensModuleNames \cup NFWInitLocals
        THEN [obj |-> NoNFW, err |-> "NameError"]
        ELSE IF ~optimize /\ m200c.t = "none" /\ r200c.t = "none"
        THEN [obj |-> NoNFW, err |-> "AssertionError"]
        ELSE IF r200c.t = "none" /\ o1.m200ch.t = "unset"
        THEN [obj |-> NoNFW, err |-> "AttributeError"]
        ELSE [obj |-> o5, err |-> "ok"]

\* NFW.populate_halo on the object o; kept is the number of particles that
\* pass the line-of-sight mask when rfrac_los is given
NFW_populate_halo(o, N, rfrac, rfrac_los, kept) ==
    LET o1 == [o EXCEPT !.populated = TRUE, !.called_populate = TRUE]
        \* mc_generate_nfw_radial_positions returns N radii
        o2 == [o1 EXCEPT !.r = Val(N), !.max_rfrac = Val(rfrac)]
        o3 == [o2 EXCEPT !.mpp = Val(M_enc(o2.m200c.v, o2.c.v, rfrac) \div N),
                         !.theta = Val(N), !.phi = Val(N),
                         !.angles = Val(RandomState(o2.seed, 0))]
        o4 == IF rfrac_los.t # "none"
              THEN [o3 EXCEPT !.r = Val(kept), !.theta = Val(kept), !.phi = Val(kept)]
              ELSE o3
    IN  IF o1.r200ch.t = "unset" \/ o1.seed.t = "unset"
        THEN [obj |-> o1, err |-> "AttributeError"]
        ELSE IF o1.seed.t = "none"
        THEN [obj |-> o1, err |-> "TypeError"]
        ELSE IF o2.c.v = 0
        THEN [obj |-> o2, err |-> "ZeroDivisionError"]
        ELSE [obj |-> o4, err |-> "ok"]

SixFiles(dir) ==
    {dir \o "/" \o q \o ".bin" : q \in {"x", "y", "z", "theta", "phi", "redshift"}}

\* boxRadius_Mpc / trans_Mpc_per_arcsec: the transverse comoving scale is
\* comoving_distance(z) / 206265 Mpc per arcsec, and dividing by the zero
\* scale of z = 0 gives numpy's inf
boxRadius_arcsec(cos, z, fov_radius) ==
    IF Dc(cos, z, 1) = 0 THEN [t |-> "inf", v |-> 0]
    ELSE Val((fov_radius * 206265) \div Dc(cos, z, 1))

\* the header of NFW._write_prop_file: the two string literals are joined
\* without a comma between sod_halo_cdelta_error and halo_lc_x
NFW_cols ==
    <<"halo_redshift", "sod_halo_mass", "sod_halo_radius", "sod_halo_cdelta",
      "sod_halo_cdelta_errorhalo_lc_x", "halo_lc_y", "halo_lc_z", "boxRadius_Mpc",
      "boxRadius_arcsec", "mpp">>
NFW_fmt ==
    <<"%.6f", "%.6f", "%.6f", "%.6f", "%.6f", "%.6f", "%.6f", "%.6f", "%.6f", "%.6f">>

\* NFW._write_prop_file: reading self.c_err raises AttributeError on an
\* object built with c supplied; otherwise the row of 11 values goes to
\* np.savetxt
NFW_write_prop_file(o, fov_radius) ==
    LET props == <<Val(o.redshift), o.m200c, o.r200c, o.c, o.c_err,
                   Val(0), Val(0), Val(0), Val(fov_radius),
                   boxRadius_arcsec("OuterRim", o.redshift, fov_radius), o.mpp>>
    IN  IF o.c_err.t = "unset"
        THEN [NoPropFile EXCEPT !.err = "AttributeError"]
        ELSE np_savetxt("NFW", props, NFW_fmt, NFW_cols)

\* NFW.output_particles, on the object o and the file system files; nearest
\* is the halo-centric distance (comoving Mpc) of the particle that ends up
\* nearest to the observer.  The farthest particle is taken to lie at the
\* sampler's cutoff max_rfrac * r200c.  prop is the properties file written,
\* lens the lengths of the six arrays.
NFW_output_particles(o, files, nearest) ==
    LET dir  == "nfw_particle_realization"
        o1   == [o EXCEPT !.halo_r = Val(Dc("OuterRim", o.redshift, 1))]
        rsky == Abs(o1.halo_r.v - nearest)
        quiet == NothingEmitted
        fov_size == (95 * (o.max_rfrac.v * o.r200c.v)) \div 141
        wr   == NFW_write_prop_file(o1, fov_size)
    IN  IF o.populated = FALSE
        THEN [obj |-> o, files |-> files, out |-> quiet, prop |-> NoPropFile,
              err |-> "RuntimeError"]
        ELSE IF o.r.t # "val" \/ o.theta.t # "val" \/ o.phi.t # "val"
        THEN [obj |-> o1, files |-> files \cup {dir}, out |-> quiet,
              prop |-> NoPropFile, err |-> "TypeError"]
        ELSE IF rsky = 0
        THEN [obj |-> o1, files |-> files \cup {dir}, out |-> quiet,
              prop |-> NoPropFile, err |-> "CosmologyError"]
        ELSE [obj |-> o1,
              files |-> IF wr.cls = "none"
                        THEN files \cup {dir} \cup SixFiles(dir)
                        ELSE files \cup {dir} \cup SixFiles(dir)
                                   \cup {dir \o "/properties.csv"},
              out |-> [cls |-> "NFW", count |-> o.r.v, rsky_min |-> rsky,
                       lens |-> <<o.r.v, o.r.v, o.r.v, o.r.v, o.r.v, o.r.v>>],
              prop |-> wr,
              err |-> wr.err]

\* int(np.sqrt(total))
IntSqrt(total) == CHOOSE k \in 0..total : k * k <= total /\ total < (k + 1) * (k + 1)

\* no PointMass object
NoPointMass ==
    [exists |-> FALSE, redshift |-> 0, mpp |-> Unset, n |-> Unset,
     particle_rho |-> Unset, halo_r |-> Unset, boxRadius_arcsec |-> Unset]

\* PointMass.__init__
PointMass_init(M, z, n, particle_rho) ==
    IF n = 0 THEN [obj |-> NoPointMass, err |-> "ZeroDivisionError"]
    ELSE [obj |-> [NoPointMass EXCEPT !.exists = TRUE, !.redshift = z,
                                      !.mpp = Val(M \div n), !.n = Val(n),
                                      !.particle_rho = Val(particle_rho)],
          err |-> "ok"]

PointMass_cols ==
    <<"halo_redshift", "sod_halo_mass", "halo_lc_x", "halo_lc_y", "halo_lc_z",
      "boxRadius_Mpc", "boxRadius_arcsec", "mpp">>
PointMass_fmt == <<"%.6f", "%.6f", "%.6f", "%.6f", "%.6f", "%.6f", "%.6f", "%.6f">>

\* PointMass._write_prop_file: sets self.boxRadius_arcsec and writes the row;
\* the value under sod_halo_mass is self.mpp
PointMass_write_prop_file(o, fov_radius) ==
    LET o1 == [o EXCEPT !.boxRadius_arcsec =
                            boxRadius_arcsec("OuterRim", o.redshift, fov_radius)]
        props == <<Val(o1.redshift), o1.mpp, Val(0), Val(0), Val(0),
                   Val(fov_radius), o1.boxRadius_arcsec, o1.mpp>>
    IN  [obj |-> o1, prop |-> np_savetxt("PointMass", props, PointMass_fmt, PointMass_cols)]

\* PointMass.output_particles.  The properties file is written first.  x has
\* n + total_particles entries, y and z have n + N*N; np.linalg.norm raises
\* ValueError on rows of different lengths.  The n central particles are at
\* (halo_r, 0, 0): they are the particles nearest to the observer.
PointMass_output_particles(o, files, fov_size) ==
    LET dir   == "pointmass_particle_realization"
        wr    == PointMass_write_prop_file(o, fov_size)
        files1 == files \cup {dir, dir \o "/properties.csv"}
        total_particles == (fov_size * 2) * (fov_size * 2) * o.particle_rho.v
        N     == IntSqrt(total_particles)
        len_x == o.n.v + total_particles
        len_y == o.n.v + N * N
        o2    == [wr.obj EXCEPT !.halo_r = Val(Dc("OuterRim", o.redshift, 1))]
    IN  IF len_x # len_y
        THEN [obj |-> o2, files |-> files1, out |-> NothingEmitted, prop |-> wr.prop,
              len_x |-> len_x, len_y |-> len_y, err |-> "ValueError"]
        ELSE [obj |-> o2, files |-> files1 \cup SixFiles(dir),
              out |-> [cls |-> "PointMass", count |-> len_x,
                       rsky_min |-> Abs(o2.halo_r.v),
                       lens |-> <<len_x, len_y, len_y, len_x, len_x, len_x>>],
              prop |-> wr.prop,
              len_x |-> len_x, len_y |-> len_y, err |-> "ok"]

\* ------------------------- make_simple_halo.py -------------------------

\* the names bound at module level in make_simple_halo.py and the local
\* names of simple_halo.populate_halo
HaloModuleNames ==
    {"os", "pdb", "scipy", "mass_conc", "np", "rc", "u", "plt", "Axes3D", "WMAP7",
     "z_at_value", "NFWProfile", "simple_halo"}
PopulateLocals == {"self", "N", "rfrac"}

\* (500 - np.searchsorted(zz, 0.3, sorter=np.argsort(zz))) - 10 for the
\* default sim_maxZ = 200, sim_steps = 500
SimpleHaloShell == 374

\* no simple_halo object
NoSimpleHalo ==
    [exists |-> FALSE, redshift |-> 0, m200c |-> Unset, r200c |-> Unset,
     shell |-> Unset, profile_particles |-> Unset, mpp |-> Unset, c |-> Unset,
     halo_r |-> Unset, called_populate |-> FALSE]

\* simple_halo.__init__; drawn is the value np.random.normal returns
simple_halo_init(m200c, z, drawn) ==
    [obj |-> [NoSimpleHalo EXCEPT !.exists = TRUE, !.redshift = z,
                                  !.m200c = Val(m200c),
                                  !.r200c = Val(halo_mass_to_halo_radius(m200c)),
                                  !.shell = Val(SimpleHaloShell),
                                  !.profile_particles = None, !.mpp = None,
                                  !.c = Val(drawn)],
     err |-> "ok"]

\* simple_halo.populate_halo: the parameter is rfrac, the body reads rfac
simple_halo_populate_halo(o, N, rfrac) ==
    LET o1 == [o EXCEPT !.called_populate = TRUE]
    IN  IF "rfac" \notin HaloModuleNames \cup PopulateLocals
        THEN [obj |-> o1, err |-> "NameError"]
        ELSE [obj |-> [o1 EXCEPT !.profile_particles = Val(N),
                                 !.mpp = Val(o.m200c.v \div N)],
              err |-> "ok"]

simple_halo_cols ==
    <<"halo_redshift", "halo_lc_shell", "sod_halo_mass", "sod_halo_radius",
      "sod_halo_cdelta", "sod_halo_cdelta_error", "halo_lc_x", "halo_lc_y", "halo_lc_z",
      "boxRadius_Mpc", "boxRadius_arcsec", "mpp">>
simple_halo_fmt ==
    <<"%.6f", "%i", "%.6f", "%.6f", "%.6f", "%.6f", "%.6f", "%.6f", "%.6f", "%.6f",
      "%.6f", "%.6f">>

\* simple_halo._write_prop_file: self.halo_r exists only once
\* output_particles has assigned it; boxRadius_Mpc is 3.42311
simple_halo_write_prop_file(o) ==
    LET props == <<Val(o.redshift), o.shell, o.m200c, o.r200c, o.c,
                   Val(0), Val(0), Val(0), o.halo_r, Val(3), Val(500), o.mpp>>
    IN  IF o.halo_r.t = "unset"
        THEN [NoPropFile EXCEPT !.err = "AttributeError"]
        ELSE np_savetxt("simple_halo", props, simple_halo_fmt, simple_halo_cols)

\* the six files <dir>/<quantity>.<shell>.bin
ShellFiles(dir, shell) ==
    {dir \o "/" \o q \o "." \o ToString(shell) \o ".bin" :
        q \in {"x", "y", "z", "theta", "phi", "redshift"}}

\* simple_halo.output_particles; nearest is as for NFW_output_particles
simple_halo_output_particles(o, files, nearest) ==
    LET dir  == "nfw_particle_realization/Cutout" \o ToString(o.shell.v)
        files1 == files \cup {dir}
        o1   == [o EXCEPT !.halo_r = Val(Times_h(Dc("WMAP7", o.redshift, 1)))]
        xmin == o1.halo_r.v - nearest
        wr   == simple_halo_write_prop_file(o1)
        n    == o.profile_particles.v
    IN  IF o.profile_particles.t # "val"
        THEN [obj |-> o, files |-> files1, out |-> NothingEmitted,
              prop |-> NoPropFile, err |-> "TypeError"]
        ELSE IF xmin <= 0
        THEN [obj |-> o1, files |-> files1, out |-> NothingEmitted,
              prop |-> NoPropFile, err |-> "CosmologyError"]
        ELSE [obj |-> o1,
              files |-> files1 \cup ShellFiles(dir, o.shell.v)
                               \cup {dir \o "/../properties.csv"},
              out |-> [cls |-> "simple_halo", count |-> n, rsky_min |-> xmin,
                       lens |-> <<n, n, n, n, n, n>>],
              prop |-> wr,
              err |-> wr.err]

\* halo_inputs.__init__: the properties record props is the parsed
\* properties.csv (column name -> value); cosmo_arg is "None" or the name of
\* a cosmology object; sim_arg is an optional dict.  A column that is not in
\* the record makes numpy raise ValueError ('no field of name ...').
halo_inputs_init(cos0, sim0, props, cosmo_arg, sim_arg) ==
    LET cos1 == IF cosmo_arg # "None" THEN update_cosmology(cos0, cosmo_arg) ELSE cos0
        sim1 == IF sim_arg.t = "val" THEN update_sim(sim0, sim_arg.v) ELSE sim0
        sim2 == IF "mpp" \in DOMAIN props
                THEN update_sim(sim1, [mpp |-> props["mpp"]]) ELSE sim1
        need == {"halo_redshift", "sod_halo_mass", "boxRadius_arcsec", "boxRadius_Mpc"}
        ok   == need \subseteq DOMAIN props
    IN  [cosmo |-> cos1, sim |-> sim2,
         err |-> IF ok THEN "ok" ELSE "ValueError",
         halo_redshift |-> IF "halo_redshift" \in DOMAIN props
                           THEN props["halo_redshift"] ELSE 0,
         halo_mass |-> IF {"halo_redshift", "sod_halo_mass"} \subseteq DOMAIN props
                       THEN props["sod_halo_mass"] ELSE 0,
         mpp |-> IF ok THEN sim2.mpp ELSE 0,
         files |-> IF ok THEN {"outputs_path", "dtfe_path", "xj_path",
                               "outputs_path/properties.csv"}
                   ELSE {}]

\* the instance under construction before any attribute is assigned
NoInputs ==
    [status |-> "none", halo_redshift |-> 0, halo_mass |-> 0, mpp |-> 0,
     min_depth |-> 0, max_depth |-> None, safe_zone |-> 0, mean_lens_width |-> 0,
     snapid_found |-> {}, snapid_list |-> {},
     max_redshift |-> 0, depth_mpc |-> 0, planes0 |-> 0,
     edges0 |-> <<>>, edge_den |-> 1, bad_edges |-> <<>>,
     lens_plane_edges |-> <<>>, num_lens_planes |-> 0, halo_shell |-> Unset]

\* single_plane_inputs.__init__, the whole constructor: halo_inputs.__init__
\* and num_lens_planes = 1
NoHaloInputs ==
    [status |-> "none", halo_redshift |-> 0, halo_mass |-> 0, mpp |-> 0,
     num_lens_planes |-> Unset]

single_plane_inputs_init(props, cosmo_arg, sim_arg) ==
    LET base == halo_inputs_init(cosmo, sim, props, cosmo_arg, sim_arg)
    IN  /\ cosmo' = base.cosmo
        /\ sim' = base.sim
        /\ fs' = fs \cup base.files
        /\ hi' = [status |-> base.err, halo_redshift |-> base.halo_redshift,
                  halo_mass |-> base.halo_mass, mpp |-> base.mpp,
                  num_lens_planes |-> IF base.err = "ok" THEN Val(1) ELSE Unset]

\* multi_plane_inputs.__init__, the whole constructor.  status is "ok" when
\* it returns and the exception's name when it raises; the attributes
\* assigned before the raise are kept for inspection.  planes0 and edges0
\* record num_lens_planes and lens_plane_edges as first assigned (lines
\* 123 and 124), snapid_found the list globbed from the cutout directory.
multi_plane_inputs_init(props, cosmo_arg, sim_arg, snapids, min_depth, max_depth, safe_zone, mean_lens_width) ==
    LET base == halo_inputs_init(cosmo, sim, props, cosmo_arg, sim_arg)
        m0   == [NoInputs EXCEPT !.halo_redshift = base.halo_redshift,
                                 !.halo_mass = base.halo_mass,
                                 !.mpp = base.mpp,
                                 !.min_depth = min_depth, !.max_depth = max_depth,
                                 !.safe_zone = safe_zone,
                                 !.mean_lens_width = mean_lens_width,
                                 !.snapid_found = snapids,
                                 !.halo_shell =
                                     IF base.err = "ok" /\ "halo_lc_shell" \in DOMAIN props
                                     THEN Val(props["halo_lc_shell"]) ELSE Unset]
        kept == IF max_depth.t = "val"
                THEN {k \in snapids : SnapRedshift(base.sim, k) <= max_depth.v}
                ELSE snapids
        zmax == SetMax({SnapRedshift(base.sim, k) : k \in kept})
        depth == Dc(base.cosmo, zmax, 1)
        n0   == depth \div mean_lens_width
        e0   == Linspace(zmax, n0)
        den  == LinspaceDen(n0)
        bad  == BadEdges(base.cosmo, e0, den, base.halo_redshift, safe_zone, 0)
        del  == DeleteBadEdges(e0, n0, bad)
        trim == TrimMinDepth(del.edges, den, min_depth)
    IN  /\ cosmo' = base.cosmo
        /\ sim' = base.sim
        /\ fs' = fs \cup base.files
        /\ mp' =
            IF base.err # "ok" THEN [m0 EXCEPT !.status = base.err]
            ELSE IF "halo_lc_shell" \notin DOMAIN props
                 THEN [m0 EXCEPT !.status = "ValueError"]
            ELSE IF snapids = {} THEN [m0 EXCEPT !.status = "IndexError"]
            ELSE IF kept = {}
                 THEN [m0 EXCEPT !.status = "ValueError", !.snapid_list = kept]
            ELSE LET m1 == [m0 EXCEPT !.snapid_list = kept,
                                      !.max_redshift = zmax, !.depth_mpc = depth,
                                      !.planes0 = n0,
                                      !.edges0 = e0, !.edge_den = den,
                                      !.bad_edges = bad]
                 IN  IF del.err # "ok"
                     THEN [m1 EXCEPT !.status = del.err,
                                     !.lens_plane_edges = del.edges,
                                     !.num_lens_planes = del.num]
                     ELSE [m1 EXCEPT !.status = "ok",
                                     !.lens_plane_edges = trim,
                                     !.num_lens_planes = Len(trim) - 1]

\* ------------------------------ inputs ---------------------------------

SnapIds == {499 - 50 * k : k \in 0..MaxSnapK}
HaloZs == {200 * k : k \in 0..MaxHaloZ}

PropsFull(hz) ==
    [halo_redshift |-> hz, halo_lc_shell |-> 401, sod_halo_mass |-> 100000,
     boxRadius_Mpc |-> 3, boxRadius_arcsec |-> 500, mpp |-> 3]
Restrict(f, S) == [x \in S |-> f[x]]
PropsFiles ==
    UNION {{PropsFull(hz),
            Restrict(PropsFull(hz), DOMAIN PropsFull(hz) \ {"mpp"}),
            Restrict(PropsFull(hz), DOMAIN PropsFull(hz) \ {"mpp", "halo_lc_shell"})}
           : hz \in HaloZs}
    \cup {Restrict(PropsFull(0), DOMAIN PropsFull(0) \ {"boxRadius_Mpc"})}
CosmoArgs == {"None", "WMAP7"}
SimArgs == {[t |-> "none", v |-> <<>>], [t |-> "val", v |-> [mpp |-> 5]]}
MinDepths == {0, 150}
MaxDepths == {None, Val(150)}
SafeZones == {20, 150, 400}
LensWidths == {100, 200, 3000}

\* --------------------------- specification -----------------------------

Concentrations == {2 * k : k \in 0..MaxConc}
Masses == {None, Val(1000)}
Radii == {None, Val(10)}
Seeds == {None, Val(42)}
Entropy == 0..MaxConc
ParticleNumbers == 1..MaxN
RadialCutoffs == 0..MaxRfrac
LosCutoffs == {None, Val(1)}
FovSizes == 1..MaxFov
ParticleDensities == 1..MaxRho
\* the mass M of the point mass (1e11 Msun)
PointMassM == 12
\* the dicts handed to update_sim directly
SimUpdates == {[mpp |-> 7], [L |-> 100, name |-> "test"], [mpp |-> 5, Np |-> 1024]}

Init ==
    /\ cosmo = "OuterRim"
    /\ sim = OuterRim_setup
    /\ mp = NoInputs
    /\ fs = {}
    /\ nfw = NoNFW
    /\ sh = NoSimpleHalo
    /\ pm = NoPointMass
    /\ last = NoCall
    /\ emitted = NothingEmitted
    /\ hi = NoHaloInputs
    /\ propfile = NoPropFile
    /\ twin = NoNFW
    /\ ncalls = 0

\* a run builds one object: nothing has been constructed or attempted yet
Idle == mp.status = "none" /\ last.op = "none"

\* a run that works on the process-wide records: no halo and no lens plane
\* partition has been built
ProcessWide == mp.status = "none" /\ ~nfw.exists /\ ~sh.exists /\ ncalls < MaxCalls

\* the properties files a halo_inputs can be pointed at: the one the point
\* mass of this run has written, or else one of the cutout directories
PropsAvailable ==
    IF pm.exists
    THEN IF propfile.cls = "PointMass" /\ propfile.err = "ok"
         THEN {genfromtxt(propfile)} ELSE {}
    ELSE PropsFiles

MultiPlaneInputs ==
    /\ Idle
    /\ \E props \in PropsFiles, cosmo_arg \in CosmoArgs, sim_arg \in SimArgs,
         snapids \in SUBSET SnapIds, min_depth \in MinDepths, max_depth \in MaxDepths,
         safe_zone \in SafeZones, mean_lens_width \in LensWidths :
          multi_plane_inputs_init(props, cosmo_arg, sim_arg, snapids,
                                  min_depth, max_depth, safe_zone, mean_lens_width)
    /\ UNCHANGED <<nfw, sh, pm, last, emitted, hi, propfile, twin, ncalls>>

UpdateSim ==
    /\ ProcessWide
    /\ \E new_sim \in SimUpdates :
          /\ sim' = update_sim(sim, new_sim)
          /\ last' = [cls |-> "cosmology", op |-> "update_sim", err |-> "ok",
                      new_sim |-> new_sim, before |-> sim]
    /\ ncalls' = ncalls + 1
    /\ UNCHANGED <<cosmo, mp, fs, nfw, sh, pm, emitted, hi, propfile, twin>>

SinglePlaneInputs ==
    /\ ProcessWide
    /\ \E props \in PropsAvailable, cosmo_arg \in CosmoArgs, sim_arg \in SimArgs :
          /\ single_plane_inputs_init(props, cosmo_arg, sim_arg)
          /\ last' = [cls |-> "halo_inputs", op |-> "__init__",
                      err |-> halo_inputs_init(cosmo, sim, props, cosmo_arg, sim_arg).err,
                      columns |-> DOMAIN props, sim_arg |-> sim_arg,
                      from_point_mass |-> pm.exists,
                      before_cosmo |-> cosmo, before_sim |-> sim]
    /\ ncalls' = ncalls + 1
    /\ UNCHANGED <<mp, nfw, sh, pm, emitted, propfile, twin>>

\* Dc2(z1, z2) and Da2(z1, z2) called under the cosmology in use
CallDc2 ==
    /\ ProcessWide
    /\ \E z1 \in HaloZs, z2 \in HaloZs :
          last' = [cls |-> "cosmology", op |-> "Dc2", err |-> "ok",
                   z1 |-> z1, z2 |-> z2, result |-> Dc2(cosmo, z1, z2)]
    /\ ncalls' = ncalls + 1
    /\ UNCHANGED <<cosmo, sim, mp, fs, nfw, sh, pm, emitted, hi, propfile, twin>>

CallDa2 ==
    /\ ProcessWide
    /\ \E z1 \in HaloZs, z2 \in HaloZs :
          last' = [cls |-> "cosmology", op |-> "Da2", err |-> "ok",
                   z1 |-> z1, z2 |-> z2, result |-> Da2(cosmo, z1, z2)]
    /\ ncalls' = ncalls + 1
    /\ UNCHANGED <<cosmo, sim, mp, fs, nfw, sh, pm, emitted, hi, propfile, twin>>

NFWInit ==
    /\ Idle
    /\ \E z \in HaloZs, m200c \in Masses, r200c \in Radii,
         c \in {None} \cup {Val(x) : x \in Concentrations}, cM_err \in BOOLEAN,
         seed \in Seeds, optimize \in BOOLEAN, entropy \in Entropy :
          LET drawn == rand_normal(RandomState(seed, entropy))
              res == NFW_init(z, m200c, r200c, c, cM_err, seed, optimize, drawn)
          IN  /\ nfw' = res.obj
              /\ last' = [cls |-> "NFW", op |-> "__init__", err |-> res.err,
                          m200c |-> m200c, r200c |-> r200c, c |-> c, seed |-> seed,
                          optimize |-> optimize, z |-> z, cM_err |-> cM_err]
    /\ UNCHANGED <<cosmo, sim, mp, fs, sh, pm, emitted, hi, propfile, twin, ncalls>>

\* a second realization constructed with the arguments of the first
NFWInitTwin ==
    /\ nfw.exists /\ ~twin.exists
    /\ last.cls = "NFW" /\ last.op = "__init__"
    /\ \E entropy \in Entropy :
          LET drawn == rand_normal(RandomState(last.seed, entropy))
              res == NFW_init(last.z, last.m200c, last.r200c, last.c, last.cM_err,
                              last.seed, last.optimize, drawn)
          IN  twin' = res.obj
    /\ UNCHANGED <<cosmo, sim, mp, fs, nfw, sh, pm, last, emitted, hi, propfile, ncalls>>

NFWPopulateHalo ==
    /\ nfw.exists
    /\ \E N \in ParticleNumbers, rfrac \in RadialCutoffs, rfrac_los \in LosCutoffs,
         kept \in 0..MaxN :
          /\ kept <= N
          /\ LET res == NFW_populate_halo(nfw, N, rfrac, rfrac_los, kept)
             IN  /\ nfw' = res.obj
                 /\ last' = [cls |-> "NFW", op |-> "populate_halo", err |-> res.err,
                             N |-> N, rfrac |-> rfrac, rfrac_los |-> rfrac_los,
                             twin_done |-> FALSE]
    /\ UNCHANGED <<cosmo, sim, mp, fs, sh, pm, emitted, hi, propfile, twin, ncalls>>

\* populate_halo on the second realization, with the arguments of the call
\* on the first
NFWPopulateTwin ==
    /\ twin.exists
    /\ last.cls = "NFW" /\ last.op = "populate_halo" /\ ~last.twin_done
    /\ \E kept \in 0..MaxN :
          /\ kept <= last.N
          /\ twin' = NFW_populate_halo(twin, last.N, last.rfrac, last.rfrac_los, kept).obj
    /\ last' = [last EXCEPT !.twin_done = TRUE]
    /\ UNCHANGED <<cosmo, sim, mp, fs, nfw, sh, pm, emitted, hi, propfile, ncalls>>

NFWOutputParticles ==
    /\ nfw.exists
    /\ \E nearest \in {0, Dc("OuterRim", nfw.redshift, 1)} :
          LET res == NFW_output_particles(nfw, fs, nearest)
          IN  /\ nfw' = res.obj
              /\ fs' = res.files
              /\ emitted' = IF res.out.cls = "none" THEN emitted ELSE res.out
              /\ propfile' = IF res.prop.cls = "none" THEN propfile ELSE res.prop
              /\ last' = [cls |-> "NFW", op |-> "output_particles", err |-> res.err,
                          before |-> fs, unpopulated |-> ~nfw.called_populate]
    /\ UNCHANGED <<cosmo, sim, mp, sh, pm, hi, twin, ncalls>>

\* _write_prop_file(fov_radius, '.') called on a constructed NFW object
NFWWritePropFile ==
    /\ nfw.exists
    /\ \E fov_radius \in FovSizes :
          LET res == NFW_write_prop_file(nfw, fov_radius)
          IN  /\ propfile' = IF res.cls = "none" THEN propfile ELSE res
              /\ fs' = IF res.cls = "none" THEN fs
                       ELSE fs \cup {"./properties.csv"}
              /\ last' = [cls |-> "NFW", op |-> "_write_prop_file", err |-> res.err,
                          before |-> fs]
    /\ UNCHANGED <<cosmo, sim, mp, nfw, sh, pm, emitted, hi, twin, ncalls>>

SimpleHaloInit ==
    /\ Idle
    /\ \E z \in HaloZs, drawn \in Concentrations :
          LET res == simple_halo_init(1000, z, drawn)
          IN  /\ sh' = res.obj
              /\ last' = [cls |-> "simple_halo", op |-> "__init__", err |-> res.err]
    /\ UNCHANGED <<cosmo, sim, mp, fs, nfw, pm, emitted, hi, propfile, twin, ncalls>>

SimpleHaloPopulateHalo ==
    /\ sh.exists
    /\ \E N \in ParticleNumbers, rfrac \in RadialCutoffs :
          LET res == simple_halo_populate_halo(sh, N, rfrac)
          IN  /\ sh' = res.obj
              /\ last' = [cls |-> "simple_halo", op |-> "populate_halo",
                          err |-> res.err, N |-> N, rfrac |-> rfrac, rfrac_los |-> None,
                          twin_done |-> FALSE]
    /\ UNCHANGED <<cosmo, sim, mp, fs, nfw, pm, emitted, hi, propfile, twin, ncalls>>

SimpleHaloOutputParticles ==
    /\ sh.exists
    /\ \E nearest \in {0, Times_h(Dc("WMAP7", sh.redshift, 1))} :
          LET res == simple_halo_output_particles(sh, fs, nearest)
          IN  /\ sh' = res.obj
              /\ fs' = res.files
              /\ emitted' = IF res.out.cls = "none" THEN emitted ELSE res.out
              /\ propfile' = IF res.prop.cls = "none" THEN propfile ELSE res.prop
              /\ last' = [cls |-> "simple_halo", op |-> "output_particles",
                          err |-> res.err, before |-> fs,
                          unpopulated |-> ~sh.called_populate]
    /\ UNCHANGED <<cosmo, sim, mp, nfw, pm, hi, twin, ncalls>>

\* _write_prop_file('.') called on a constructed simple_halo object
SimpleHaloWritePropFile ==
    /\ sh.exists
    /\ LET res == simple_halo_write_prop_file(sh)
       IN  /\ propfile' = IF res.cls = "none" THEN propfile ELSE res
           /\ fs' = IF res.cls = "none" THEN fs
                    ELSE fs \cup {"./../properties.csv"}
           /\ last' = [cls |-> "simple_halo", op |-> "_write_prop_file",
                       err |-> res.err, before |-> fs]
    /\ UNCHANGED <<cosmo, sim, mp, nfw, sh, pm, emitted, hi, twin, ncalls>>

PointMassInit ==
    /\ Idle
    /\ \E z \in HaloZs, n \in 0..MaxN, particle_rho \in ParticleDensities :
          LET res == PointMass_init(PointMassM, z, n, particle_rho)
          IN  /\ pm' = res.obj
              /\ last' = [cls |-> "PointMass", op |-> "__init__", err |-> res.err]
    /\ UNCHANGED <<cosmo, sim, mp, fs, nfw, sh, emitted, hi, propfile, twin, ncalls>>

PointMassOutputParticles ==
    /\ pm.exists
    /\ \E fov_size \in FovSizes :
          LET res == PointMass_output_particles(pm, fs, fov_size)
          IN  /\ pm' = res.obj
              /\ fs' = res.files
              /\ emitted' = IF res.out.cls = "none" THEN emitted ELSE res.out
              /\ propfile' = res.prop
              /\ last' = [cls |-> "PointMass", op |-> "output_particles",
                          err |-> res.err, before |-> fs, unpopulated |-> FALSE,
                          len_x |-> res.len_x, len_y |-> res.len_y]
    /\ UNCHANGED <<cosmo, sim, mp, nfw, sh, hi, twin, ncalls>>

Next ==
    \/ MultiPlaneInputs
    \/ UpdateSim
    \/ SinglePlaneInputs
    \/ CallDc2
    \/ CallDa2
    \/ NFWInit
    \/ NFWInitTwin
    \/ NFWPopulateHalo
    \/ NFWPopulateTwin
    \/ NFWOutputParticles
    \/ NFWWritePropFile
    \/ SimpleHaloInit
    \/ SimpleHaloPopulateHalo
    \/ SimpleHaloOutputParticles
    \/ SimpleHaloWritePropFile
    \/ PointMassInit
    \/ PointMassOutputParticles

Spec == Init /\ [][Next]_vars

\* ------------------------ lens plane partition -------------------------

EdgeDistance(i) == Dc(cosmo, mp.lens_plane_edges[i], mp.edge_den)
HaloDistance == Dc(cosmo, mp.halo_redshift, 1)
InSafeZone(i) == Abs(HaloDistance - EdgeDistance(i)) <= mp.safe_zone

\* the constructor got as far as creating the edges (line 124)
EdgesBuilt == mp.edges0 # <<>>

StrictlyIncreasing(s) == \A i \in 1..(Len(s) - 1) : s[i] < s[i + 1]

\* a is b with some elements left out
RECURSIVE IsSubsequence(_, _)
IsSubsequence(a, b) ==
    IF a = <<>> THEN TRUE
    ELSE IF b = <<>> THEN FALSE
    ELSE IF Head(a) = Head(b) THEN IsSubsequence(Tail(a), Tail(b))
    ELSE IsSubsequence(a, Tail(b))

\* C1: after the construction no remaining edge lies within safe_zone Mpc
\* (comoving) of the halo.
C1_NoEdgeInSafeZone ==
    mp.status = "ok" => \A i \in 1..Len(mp.lens_plane_edges) : ~InSafeZone(i)

\* C2: num_lens_planes is len(lens_plane_edges) - 1 recomputed after the
\* removals, and it is 0, never negative, when fewer than 2 edges are left.
C2_PlanesNeverNegative ==
    mp.status = "ok" =>
        /\ mp.num_lens_planes = Len(mp.lens_plane_edges) - 1
        /\ Len(mp.lens_plane_edges) < 2 => mp.num_lens_planes = 0
        /\ mp.num_lens_planes >= 0

\* C3: the edges are strictly increasing and are a subsequence, in the
\* original order, of the linearly spaced edges first created.
C3_EdgesOrdered ==
    mp.status = "ok" =>
        /\ StrictlyIncreasing(mp.lens_plane_edges)
        /\ IsSubsequence(mp.lens_plane_edges, mp.edges0)

\* a construction in which the safe zone removed an edge, the min_depth trim
\* dropped another, and at least two edges are left
C3_Witness ==
    /\ mp.status = "ok"
    /\ mp.bad_edges # <<>>
    /\ mp.min_depth > 0
    /\ Len(mp.lens_plane_edges) >= 2
    /\ Len(mp.lens_plane_edges) + Len(mp.bad_edges) < Len(mp.edges0)

C4_ShellsKept ==
    /\ mp.snapid_list =
         {k \in mp.snapid_found :
            mp.max_depth.t = "val" => SnapRedshift(sim, k) <= mp.max_depth.v}
    /\ \E k \in mp.snapid_list : SnapRedshift(sim, k) = mp.max_redshift
    /\ \A k \in mp.snapid_list : SnapRedshift(sim, k) <= mp.max_redshift

C4_PlaneCount ==
    /\ mp.planes0 * mp.mean_lens_width <= Dc(cosmo, mp.max_redshift, 1)
    /\ Dc(cosmo, mp.max_redshift, 1) < (mp.planes0 + 1) * mp.mean_lens_width
    /\ Len(mp.edges0) = mp.planes0 + 1

C4_EvenlySpaced ==
    /\ mp.edges0[1] = 0
    /\ \A i \in 2..(Len(mp.edges0) - 1) :
         mp.edges0[i + 1] - mp.edges0[i] = mp.edges0[i] - mp.edges0[i - 1]

C4_LastIsMaxRedshift ==
    mp.edges0[Len(mp.edges0)] = mp.max_redshift * mp.edge_den

\* C4 as stated: shells filtered by max_depth, max_redshift their maximum,
\* num_lens_planes = floor(depth / mean_lens_width), and num_lens_planes + 1
\* edges linearly spaced from 0 to max_redshift.
C4_Original ==
    EdgesBuilt =>
        /\ C4_ShellsKept
        /\ C4_PlaneCount
        /\ C4_EvenlySpaced
        /\ C4_LastIsMaxRedshift

\* C4 (amended): as C4, but the last edge is max_redshift only when
\* num_lens_planes >= 1; with num_lens_planes = 0 the single edge is 0.
C4_LinspaceEdges ==
    EdgesBuilt =>
        /\ C4_ShellsKept
        /\ C4_PlaneCount
        /\ C4_EvenlySpaced
        /\ mp.planes0 >= 1 => C4_LastIsMaxRedshift
        /\ mp.planes0 = 0 => mp.edges0 = <<0>>

\* max_depth dropped a shell and at least three planes were laid out
C4_Witness ==
    /\ EdgesBuilt
    /\ mp.snapid_list # mp.snapid_found
    /\ mp.planes0 >= 2
    /\ mp.max_redshift > 0

\* -------------------------- halo realizations --------------------------

\* the object the last call was made on
LastIsNFW == last.cls = "NFW"
LastIsSimpleHalo == last.cls = "simple_halo"
LastIsPointMass == last.cls = "PointMass"

\* the exceptions that report an invalid parameter
InvalidParameter == {"ValueError", "AssertionError"}

HasParticleSet ==
    IF LastIsNFW THEN nfw.r.t = "val" /\ nfw.theta.t = "val" /\ nfw.phi.t = "val"
    ELSE sh.profile_particles.t = "val"

\* C5: output_particles on a halo that populate_halo was never called on
\* fails with the explicit invalid-state error before anything is created,
\* for NFW and for simple_halo.
C5_OutputBeforePopulate ==
    (/\ last.op = "output_particles"
     /\ LastIsNFW \/ LastIsSimpleHalo
     /\ last.unpopulated) =>
        /\ last.err = "RuntimeError"
        /\ fs = last.before

\* C6: NFW construction succeeds exactly when m200c or r200c is supplied;
\* then m200c, m200ch, r200c and r200ch are all defined, the missing one
\* derived from the other; with neither it fails with an invalid-parameter
\* error.
C6_ConstructionRule ==
    (LastIsNFW /\ last.op = "__init__") =>
        /\ last.err = "ok" <=> (last.m200c.t = "val" \/ last.r200c.t = "val")
        /\ last.err = "ok" =>
             /\ nfw.exists
             /\ nfw.m200c.t = "val" /\ nfw.m200ch.t = "val"
             /\ nfw.r200c.t = "val" /\ nfw.r200ch.t = "val"
             /\ last.m200c.t = "none" =>
                  nfw.m200c.v = Div_h(halo_radius_to_halo_mass(last.r200c.v))
        /\ (last.m200c.t = "none" /\ last.r200c.t = "none") =>
             last.err \in InvalidParameter

\* C7: populate_halo completes and yields a particle set on every
\* constructed NFW halo (seed None or c supplied included) and on every
\* simple_halo, for any N and rfrac.
C7_PopulateCompletes ==
    last.op = "populate_halo" => last.err = "ok" /\ HasParticleSet

\* C8: after populate_halo(N, rfrac) the mass per particle is the closed-form
\* NFW mass within rfrac*r200c divided by N, for NFW and for simple_halo.
C8_MassPerParticle ==
    last.op = "populate_halo" =>
        LET o == IF LastIsNFW THEN nfw ELSE sh
        IN  o.c.v > 0 =>
              /\ o.mpp.t = "val"
              /\ o.mpp.v = M_enc(o.m200c.v, o.c.v, last.rfrac) \div last.N

\* C9: populate_halo with concentration <= 0 or cutoff rfrac*r200c <= 0 fails
\* with an invalid-parameter error and leaves the halo without a particle set
\* and without a mass per particle.
C9_PopulateRejects ==
    (/\ last.op = "populate_halo"
     /\ LET o == IF LastIsNFW THEN nfw ELSE sh
        IN  o.c.v <= 0 \/ last.rfrac * o.r200c.v <= 0) =>
        /\ last.err \in InvalidParameter
        /\ ~HasParticleSet
        /\ (IF LastIsNFW THEN nfw.mpp.t ELSE sh.mpp.t) # "val"

\* C10: no emitted particle has r_sky = 0: output_particles of an NFW halo
\* (one that has particles to project) or of a point mass with redshift <= 0
\* is rejected with an invalid-parameter error before the projection.
C10_NoParticleAtOrigin ==
    /\ emitted.cls # "none" => emitted.rsky_min > 0
    /\ (/\ last.op = "output_particles"
        /\ \/ LastIsNFW /\ HasParticleSet /\ nfw.redshift <= 0
           \/ LastIsPointMass /\ pm.redshift <= 0) =>
         /\ last.err \in InvalidParameter
         /\ fs = last.before

\* --------------------------- particle arrays ---------------------------

\* C11: after every populate_halo call on an NFW halo r, theta and phi are
\* arrays of one length: N when rfrac_los is None, and the jointly masked
\* subset (at most N) when line-of-sight clipping is requested.
C11_ArraysAligned ==
    (LastIsNFW /\ last.op = "populate_halo") =>
        /\ nfw.r.t = "val" /\ nfw.theta.t = "val" /\ nfw.phi.t = "val"
        /\ nfw.r.v = nfw.theta.v /\ nfw.theta.v = nfw.phi.v
        /\ last.rfrac_los.t = "none" => nfw.r.v = last.N
        /\ last.rfrac_los.t = "val" => nfw.r.v <= last.N

\* C12: the six arrays x, y, z, theta, phi, redshift that output_particles
\* emits have one length, and in PointMass.output_particles the x array
\* (n + total_particles) is as long as the y and z arrays (n + N*N) for
\* every fov_size and particle_rho.
C12_EqualLengths ==
    /\ emitted.cls # "none" =>
         \A i, j \in 1..Len(emitted.lens) : emitted.lens[i] = emitted.lens[j]
    /\ (LastIsPointMass /\ last.op = "output_particles") => last.len_x = last.len_y

\* every particle array file and properties file a realization can write
DataFiles ==
    SixFiles("nfw_particle_realization") \cup SixFiles("pointmass_particle_realization")
    \cup ShellFiles("nfw_particle_realization/Cutout" \o ToString(SimpleHaloShell),
                    SimpleHaloShell)
    \cup {"nfw_particle_realization/properties.csv",
          "pointmass_particle_realization/properties.csv",
          "nfw_particle_realization/Cutout" \o ToString(SimpleHaloShell)
              \o "/../properties.csv"}

\* the files output_particles of the class of the last call writes
OutputOf(cls) ==
    IF cls = "NFW"
    THEN SixFiles("nfw_particle_realization")
         \cup {"nfw_particle_realization/properties.csv"}
    ELSE IF cls = "PointMass"
    THEN SixFiles("pointmass_particle_realization")
         \cup {"pointmass_particle_realization/properties.csv"}
    ELSE ShellFiles("nfw_particle_realization/Cutout" \o ToString(SimpleHaloShell),
                    SimpleHaloShell)
         \cup {"nfw_particle_realization/Cutout" \o ToString(SimpleHaloShell)
                   \o "/../properties.csv"}

\* C13: output_particles is all-or-nothing: a call that fails has written no
\* particle array file and no properties file, and a call that returns has
\* written the six arrays and the properties file.
C13_AllOrNothing ==
    last.op = "output_particles" =>
        /\ last.err # "ok" => (fs \ last.before) \cap DataFiles = {}
        /\ last.err = "ok" => OutputOf(last.cls) \subseteq fs

\* C14: in every properties file written (NFW, PointMass, simple_halo) the
\* header has as many column names as the row has values and the format has
\* fields, the write succeeds, and the column names are distinct.
C14_PropFileColumns ==
    propfile.cls # "none" =>
        /\ Len(propfile.cols) = Len(propfile.values)
        /\ Len(propfile.fmt) = Len(propfile.values)
        /\ propfile.err = "ok"
        /\ \A i, j \in 1..Len(propfile.cols) :
               propfile.cols[i] = propfile.cols[j] => i = j

\* C15: a halo_inputs that reads the properties file of a point mass gets
\* halo_mass = M, the mass given to the PointMass constructor, and
\* mpp = M / n.
C15_PointMassRoundTrip ==
    (last.cls = "halo_inputs" /\ last.from_point_mass /\ last.err = "ok") =>
        /\ hi.halo_mass = PointMassM
        /\ hi.mpp = PointMassM \div pm.n.v

\* --------------------------- process-wide state ------------------------

\* C16: update_sim(new_sim) merges key-wise: every key of new_sim holds the
\* supplied value, every other key keeps the value it had before the call,
\* and the five keys of the simulation record stay defined.
C16_UpdateSimMerges ==
    last.op = "update_sim" =>
        /\ \A key \in DOMAIN last.new_sim : sim[key] = last.new_sim[key]
        /\ \A key \in (DOMAIN last.before) \ (DOMAIN last.new_sim) :
               key \in DOMAIN sim /\ sim[key] = last.before[key]
        /\ DOMAIN sim = (DOMAIN last.before) \cup (DOMAIN last.new_sim)
        /\ {"z_init", "sim_steps", "L", "mpp", "name"} \subseteq DOMAIN sim

\* a second update_sim call that sets mpp after a first one that set L and
\* name: the record holds the values of both
C16_Witness ==
    /\ last.op = "update_sim"
    /\ ncalls = 2
    /\ last.new_sim = [mpp |-> 7]
    /\ last.before.L = 100
    /\ sim.L = 100 /\ sim.name = "test" /\ sim.mpp = 7 /\ sim.z_init = 200

\* the values of mpp that do not come from a properties file: the default
\* setup's, and those handed over in a sim argument or to update_sim
ExplicitMpps ==
    {OuterRim_setup.mpp}
    \cup {a.v.mpp : a \in {b \in SimArgs : b.t = "val"}}
    \cup {u.mpp : u \in {w \in SimUpdates : "mpp" \in DOMAIN w}}

\* C17: an instance whose properties file has no mpp column gets the mpp of
\* its sim argument or of the simulation setup, never an mpp read from the
\* properties file of an instance constructed earlier.
C17_NoMppLeak ==
    (last.cls = "halo_inputs" /\ last.err = "ok" /\ "mpp" \notin last.columns) =>
        IF last.sim_arg.t = "val"
        THEN hi.mpp = last.sim_arg.v.mpp
        ELSE hi.mpp \in ExplicitMpps

\* ----------------------- realizations, continued -----------------------

\* C18: two NFW realizations constructed with the same arguments (no c, so
\* that the concentration is drawn) and a seed, and populated with the same N, rfrac and rfrac_los, have the same
\* concentration and the same theta and phi arrays.
C18_SeedDeterminism ==
    (/\ LastIsNFW /\ last.op = "populate_halo" /\ last.twin_done
     /\ nfw.seed.t = "val") =>
        /\ nfw.c = twin.c
        /\ nfw.theta.t = "val" /\ nfw.phi.t = "val" /\ nfw.angles.t = "val"
        /\ twin.theta = nfw.theta /\ twin.phi = nfw.phi /\ twin.angles = nfw.angles

\* C19: once the properties record has been read, the lens plane
\* construction of multi_plane_inputs over a cutout directory that holds
\* shells completes: no index-out-of-range error from the loop that deletes
\* the bad edges, no empty-sequence error when max_depth filters out every
\* shell.
C19_ConstructionCompletes ==
    (mp.halo_shell.t = "val" /\ mp.snapid_found # {}) => mp.status = "ok"

\* C20: populated == True on an NFW halo implies a complete particle set:
\* r, theta and phi are arrays and mpp and max_rfrac are set.
C20_PopulatedMeansParticles ==
    nfw.populated =>
        /\ nfw.r.t = "val" /\ nfw.theta.t = "val" /\ nfw.phi.t = "val"
        /\ nfw.mpp.t = "val" /\ nfw.max_rfrac.t = "val"

\* ------------------------ process-wide state, continued ----------------

\* C21: a halo_inputs construction that fails because the properties record
\* lacks an expected field (halo_lc_shell for multi_plane_inputs, which is
\* the first construction of its run) leaves the process-wide cosmology and
\* simulation record as they were before the call.
C21_FailedConstructionKeepsGlobals ==
    /\ (last.cls = "halo_inputs" /\ last.err = "ValueError") =>
           cosmo = last.before_cosmo /\ sim = last.before_sim
    /\ (mp.status = "ValueError" /\ mp.halo_shell.t = "unset") =>
           cosmo = "OuterRim" /\ sim = OuterRim_setup

\* C22: Dc2(z1, z2) is Dc(z2) - Dc(z1), nonzero whenever the two comoving
\* distances differ, as Da2(z1, z2) is Da(z2) - Da(z1).
C22_Dc2Difference ==
    /\ last.op = "Dc2" =>
         /\ last.result = Dc(cosmo, last.z2, 1) - Dc(cosmo, last.z1, 1)
         /\ Dc(cosmo, last.z1, 1) # Dc(cosmo, last.z2, 1) => last.result # 0
    /\ last.op = "Da2" => last.result = Da(cosmo, last.z2) - Da(cosmo, last.z1)

====
